---- MODULE Spec2Model ----
(***************************************************************************)
(* Model of reorder_gui.py: the 4-up invoice re-ordering pipeline.         *)
(*                                                                         *)
(*   slice_page_into_quarters  (lines 19-32)                               *)
(*   reorder_stride            (lines 35-45)                               *)
(*   rebuild_pages             (lines 48-58)                               *)
(*   process_pdf               (lines 61-72)                               *)
(*   PdfWorker.run             (lines 85-91)                               *)
(*                                                                         *)
(* Two specifications share the variables:                                 *)
(*   SpecStride  calls reorder_stride on lists of any length;              *)
(*   Spec        runs PdfWorker.run / process_pdf on a source document.    *)
(*                                                                         *)
(* Python lists are 0-based; sequences here are 1-based, so parts[x] of    *)
(* the code is parts[x + 1] of the model.  Lengths are in PDF points; the  *)
(* page heights drawn are multiples of 16, for which the float divisions   *)
(* h / 4.0 of lines 23 and 51 are exact and equal to integer division.     *)
(***************************************************************************)
EXTENDS Integers, Sequences, FiniteSets, TLC

\* ---------------------------------------------------------------- bounds
MaxLen == 9
MaxPages == 3
MaxHeightUnits == 2

Widths == {10}
Heights == {16 * u : u \in 1..MaxHeightUnits}

VARIABLES
    stride_in,   \* argument of the reorder_stride call under test
    stride_out,  \* its outcome: not yet called, returned, or raised
    pc,          \* position of PdfWorker.run / process_pdf
    nPages,      \* len(reader.pages) of the source document
    W0, H0,      \* width and height of every source page as loaded
    mediabox,    \* heap of box objects: box reference -> rectangle
    parts,       \* process_pdf: parts (line 65)
    k,           \* process_pdf: index of the next page of the loop, line 66
    reordered,   \* process_pdf: reordered (line 68)
    num_pages,   \* process_pdf: num_pages (line 68)
    writer,      \* process_pdf: writer (line 69)
    dstFile,     \* the file at dst_path
    dst0,        \* the file at dst_path when the run started
    signals,     \* the Qt signals emitted by PdfWorker.run, in order
    exc,         \* message of the exception in flight, "" when none
    ret,         \* value returned by process_pdf, -1 when none
    calls        \* how often each stage has been invoked

vars == <<stride_in, stride_out, pc, nPages, W0, H0, mediabox, parts, k,
          reordered, num_pages, writer, dstFile, dst0, signals, exc, ret, calls>>

strideVars == <<stride_in, stride_out>>
pipeVars == <<pc, nPages, W0, H0, mediabox, parts, k, reordered, num_pages,
              writer, dstFile, dst0, signals, exc, ret, calls>>

\* ------------------------------------------------------------ messages
MsgNotDivisible == "Total invoices must be divisible by 4."
MsgEmpty == "Source PDF is empty."
MsgProgress == "Processing..."
MsgReadError == "read error"
MsgOpenError == "open error"
MsgWriteError == "write error"

\* ------------------------------------------------------- reorder_stride
\* line 44: the index of parts appended for output page i, position j.
\* Mutants: the stride left out; the piles taken bottom-up.
StrideIndexNoStride(i, j, n) == i + j
StrideIndexBottomUp(i, j, n) == i + (3 - j) * n
StrideIndex(i, j, n) == i + j * n

\* lines 42-44: the nested loops; c = i*4 + j counts the appends done.
RECURSIVE StrideLoop(_, _, _, _)
StrideLoop(ps, n, c, acc) ==
    IF c >= n * 4 THEN acc
    ELSE StrideLoop(ps, n, c + 1,
                    Append(acc, ps[StrideIndex(c \div 4, c % 4, n) + 1]))

Raised(msg) == [kind |-> "raised", msg |-> msg, reordered |-> <<>>, num_pages |-> 0]
Returned(r, n) == [kind |-> "returned", msg |-> "", reordered |-> r, num_pages |-> n]
NotCalled == [kind |-> "none", msg |-> "", reordered |-> <<>>, num_pages |-> 0]

\* Mutant: the divisibility guard of lines 37-38 left out.
reorder_stride_unguarded(ps) ==
    Returned(StrideLoop(ps, Len(ps) \div 4, 0, <<>>), Len(ps) \div 4)

\* lines 35-45
reorder_stride(ps) ==
    LET total_parts == Len(ps) IN
    IF total_parts % 4 # 0
    THEN Raised(MsgNotDivisible)
    ELSE LET n == total_parts \div 4
         IN Returned(StrideLoop(ps, n, 0, <<>>), n)

\* ------------------------------------------------ SpecStride: the driver
Items == 0..1
Numbered(n) == [x \in 1..n |-> x - 1]
Descending(n) == [x \in 1..n |-> n - x]
StrideInputs ==
    UNION {[1..n -> Items] : n \in 0..MaxLen}
        \cup {Numbered(n) : n \in 0..MaxLen}
        \cup {Descending(n) : n \in 0..MaxLen}

PipeIdle ==
    /\ pc = "off"
    /\ nPages = 0 /\ W0 = 0 /\ H0 = 0
    /\ mediabox = <<>>
    /\ parts = <<>> /\ k = 0
    /\ reordered = <<>> /\ num_pages = 0
    /\ writer = [w |-> 0, h |-> 0, pages |-> <<>>]
    /\ dstFile = "absent" /\ dst0 = "absent"
    /\ signals = <<>> /\ exc = "" /\ ret = -1
    /\ calls = [slice |-> 0, reorder |-> 0, rebuild |-> 0, open |-> 0]

InitStride ==
    /\ stride_in \in StrideInputs
    /\ stride_out = NotCalled
    /\ PipeIdle

CallReorderStride ==
    /\ stride_out.kind = "none"
    /\ stride_out' = reorder_stride(stride_in)
    /\ UNCHANGED <<stride_in, pipeVars>>

NextStride == CallReorderStride

SpecStride == InitStride /\ [][NextStride]_vars

\* ------------------------------------------- page objects and their boxes
\* A page object is a dictionary whose /MediaBox entry refers to a box
\* object; mediabox maps the box reference to the rectangle it holds now.
\* Source page p (1-based) is [page |-> p, box |-> p]; a part is a copy of a
\* page object, told apart from its siblings by its quarter index.
Rect(llx, lly, urx, ury) == [llx |-> llx, lly |-> lly, urx |-> urx, ury |-> ury]
BoxWidth(r) == r.urx - r.llx
BoxHeight(r) == r.ury - r.lly
SourcePage(p) == [page |-> p, box |-> p]

\* lines 23 and 51: step = h / 4.0
Quarter(h) == h \div 4

\* line 26: part = page.copy().  The page object is a dict; copy() makes a
\* new dict with the same entries, so the copy refers to the box object the
\* page refers to (line 21 has already read page.mediabox, which is the one
\* rectangle object both dicts then hold).
PageCopy(page, i) == [page |-> page.page, quarter |-> i, box |-> page.box]

\* lines 25-31: the loop body for i, i+1, ..., 3 on heap mb; w, h and step
\* were read before the loop (lines 21-23).
RECURSIVE SliceLoop(_, _, _, _, _, _)
SliceLoop(page, w, h, i, mb, acc) ==
    IF i >= 4 THEN [parts |-> acc, mediabox |-> mb]
    ELSE LET part == PageCopy(page, i)
             top == h - Quarter(h) * i
             bottom == top - Quarter(h)
             mb1 == [mb EXCEPT ![part.box] = Rect(0, bottom, @.urx, @.ury)]
             mb2 == [mb1 EXCEPT ![part.box] = Rect(@.llx, @.lly, w, top)]
         IN SliceLoop(page, w, h, i + 1, mb2, Append(acc, part))

\* lines 19-32: the returned parts and the heap the call leaves behind.
slice_page_into_quarters(page, mb) ==
    SliceLoop(page, BoxWidth(mb[page.box]), BoxHeight(mb[page.box]), 0, mb, <<>>)

\* lines 55-57: the parts merged onto output page i, each with the offset y
\* it is translated by and the box it carries when merged.
Placed(ps, i, h, mb) ==
    [idx \in 1..4 |->
        [part |-> ps[i * 4 + idx],
         y |-> h - Quarter(h) * ((idx - 1) + 1),
         box |-> mb[ps[i * 4 + idx].box]]]

\* lines 48-58
rebuild_pages(ps, n, template_page, mb) ==
    LET w == BoxWidth(mb[template_page.box])
        h == BoxHeight(mb[template_page.box])
    IN [w |-> w, h |-> h,
        pages |-> [i1 \in 1..n |-> Placed(ps, i1 - 1, h, mb)]]

\* --------------------------------------- Spec: PdfWorker.run, process_pdf
Signal(name, msg, pages) == [sig |-> name, msg |-> msg, pages |-> pages]

Init ==
    /\ stride_in = <<>>
    /\ stride_out = NotCalled
    /\ pc = "run"
    /\ nPages \in 0..MaxPages
    /\ W0 \in Widths
    /\ H0 \in Heights
    /\ mediabox = [p \in 1..nPages |-> Rect(0, 0, W0, H0)]
    /\ parts = <<>> /\ k = 0
    /\ reordered = <<>> /\ num_pages = 0
    /\ writer = [w |-> 0, h |-> 0, pages |-> <<>>]
    /\ dst0 \in {"absent", "old"}
    /\ dstFile = dst0
    /\ signals = <<>> /\ exc = "" /\ ret = -1
    /\ calls = [slice |-> 0, reorder |-> 0, rebuild |-> 0, open |-> 0]

Raise(msg) == pc' = "raised" /\ exc' = msg

\* line 87
EmitProgress ==
    /\ pc = "run"
    /\ signals' = Append(signals, Signal("progress", MsgProgress, -1))
    /\ pc' = "read"
    /\ UNCHANGED <<strideVars, nPages, W0, H0, mediabox, parts, k, reordered,
                   num_pages, writer, dstFile, dst0, exc, ret, calls>>

\* line 62: PdfReader(src_path) succeeds
ReadSource ==
    /\ pc = "read"
    /\ pc' = "check"
    /\ UNCHANGED <<strideVars, nPages, W0, H0, mediabox, parts, k, reordered,
                   num_pages, writer, dstFile, dst0, signals, exc, ret, calls>>

\* line 62: PdfReader(src_path) raises (unreadable or malformed file)
ReadSourceFails ==
    /\ pc = "read"
    /\ Raise(MsgReadError)
    /\ UNCHANGED <<strideVars, nPages, W0, H0, mediabox, parts, k, reordered,
                   num_pages, writer, dstFile, dst0, signals, ret, calls>>

\* Mutant: the empty-document guard of lines 63-64 left out.
CheckEmptyMissing ==
    /\ pc = "check"
    /\ pc' = "slice"
    /\ parts' = <<>>
    /\ k' = 0
    /\ UNCHANGED <<strideVars, nPages, W0, H0, mediabox, reordered, num_pages,
                   writer, dstFile, dst0, signals, exc, ret, calls>>

\* lines 63-65
CheckEmpty ==
    /\ pc = "check"
    /\ IF nPages = 0
       THEN Raise(MsgEmpty) /\ UNCHANGED <<parts, k>>
       ELSE pc' = "slice" /\ parts' = <<>> /\ k' = 0 /\ UNCHANGED exc
    /\ UNCHANGED <<strideVars, nPages, W0, H0, mediabox, reordered, num_pages,
                   writer, dstFile, dst0, signals, ret, calls>>

\* lines 66-67: one iteration of the loop over reader.pages
SlicePage ==
    /\ pc = "slice"
    /\ k < nPages
    /\ LET r == slice_page_into_quarters(SourcePage(k + 1), mediabox)
       IN /\ parts' = parts \o r.parts
          /\ mediabox' = r.mediabox
    /\ k' = k + 1
    /\ calls' = [calls EXCEPT !.slice = @ + 1]
    /\ UNCHANGED <<strideVars, pc, nPages, W0, H0, reordered, num_pages,
                   writer, dstFile, dst0, signals, exc, ret>>

\* line 68
Reorder ==
    /\ pc = "slice"
    /\ k >= nPages
    /\ LET r == reorder_stride(parts)
       IN IF r.kind = "raised"
          THEN Raise(r.msg) /\ UNCHANGED <<reordered, num_pages>>
          ELSE /\ reordered' = r.reordered
               /\ num_pages' = r.num_pages
               /\ pc' = "rebuild"
               /\ UNCHANGED exc
    /\ calls' = [calls EXCEPT !.reorder = @ + 1]
    /\ UNCHANGED <<strideVars, nPages, W0, H0, mediabox, parts, k, writer,
                   dstFile, dst0, signals, ret>>

\* line 69: the template is reader.pages[0]
Rebuild ==
    /\ pc = "rebuild"
    /\ writer' = rebuild_pages(reordered, num_pages, SourcePage(1), mediabox)
    /\ pc' = "open"
    /\ calls' = [calls EXCEPT !.rebuild = @ + 1]
    /\ UNCHANGED <<strideVars, nPages, W0, H0, mediabox, parts, k, reordered,
                   num_pages, dstFile, dst0, signals, exc, ret>>

\* line 70: open(dst_path, "wb") creates the file or truncates it
OpenDst ==
    /\ pc = "open"
    /\ dstFile' = "empty"
    /\ pc' = "write"
    /\ calls' = [calls EXCEPT !.open = @ + 1]
    /\ UNCHANGED <<strideVars, nPages, W0, H0, mediabox, parts, k, reordered,
                   num_pages, writer, dst0, signals, exc, ret>>

\* line 70: open raises (the path cannot be opened for writing)
OpenDstFails ==
    /\ pc = "open"
    /\ Raise(MsgOpenError)
    /\ calls' = [calls EXCEPT !.open = @ + 1]
    /\ UNCHANGED <<strideVars, nPages, W0, H0, mediabox, parts, k, reordered,
                   num_pages, writer, dstFile, dst0, signals, ret>>

\* lines 71-72: writer.write(f) completes, the file is closed, N is returned
WriteDst ==
    /\ pc = "write"
    /\ dstFile' = "output"
    /\ ret' = num_pages
    /\ pc' = "returned"
    /\ UNCHANGED <<strideVars, nPages, W0, H0, mediabox, parts, k, reordered,
                   num_pages, writer, dst0, signals, exc, calls>>

\* line 71: writer.write(f) raises after serializing nothing or a part; the
\* with-statement closes the file and the exception propagates
WriteDstFails ==
    /\ pc = "write"
    /\ dstFile' \in {"empty", "partial"}
    /\ Raise(MsgWriteError)
    /\ UNCHANGED <<strideVars, nPages, W0, H0, mediabox, parts, k, reordered,
                   num_pages, writer, dst0, signals, ret, calls>>

\* line 89
EmitFinished ==
    /\ pc = "returned"
    /\ signals' = Append(signals, Signal("finished", "", ret))
    /\ pc' = "done"
    /\ UNCHANGED <<strideVars, nPages, W0, H0, mediabox, parts, k, reordered,
                   num_pages, writer, dstFile, dst0, exc, ret, calls>>

\* Mutant: the exception is swallowed without a signal.
EmitFailedSilent ==
    /\ pc = "raised"
    /\ pc' = "done"
    /\ UNCHANGED <<strideVars, nPages, W0, H0, mediabox, parts, k, reordered,
                   num_pages, writer, dstFile, dst0, signals, exc, ret, calls>>

\* lines 90-91
EmitFailed ==
    /\ pc = "raised"
    /\ signals' = Append(signals, Signal("failed", exc, -1))
    /\ pc' = "done"
    /\ UNCHANGED <<strideVars, nPages, W0, H0, mediabox, parts, k, reordered,
                   num_pages, writer, dstFile, dst0, exc, ret, calls>>

Next ==
    \/ EmitProgress
    \/ ReadSource
    \/ ReadSourceFails
    \/ CheckEmpty
    \/ SlicePage
    \/ Reorder
    \/ Rebuild
    \/ OpenDst
    \/ OpenDstFails
    \/ WriteDst
    \/ WriteDstFails
    \/ EmitFinished
    \/ EmitFailed

Spec == Init /\ [][Next]_vars

\* The worker thread is scheduled until run() returns: every call of the run
\* blocks only on file I/O, which completes or raises.
FairSpec == Spec /\ WF_vars(Next)

\* ------------------------------------------- claims about reorder_stride
IsDistinct(s) == \A x, y \in 1..Len(s) : s[x] = s[y] => x = y
StrideReturnedPages == stride_out.kind = "returned" /\ Len(stride_in) >= 4
StrideN == Len(stride_in) \div 4

\* C1 as stated: reordered[i*4 + j] = flattened[(i + j*N)*4 + j] for every
\* i in [0,N), j in [0,4), N = len(flattened) / 4 >= 1.
C1_IndexLawAsStated ==
    StrideReturnedPages =>
        \A i \in 0..(StrideN - 1), j \in 0..3 :
            /\ (i + j * StrideN) * 4 + j < Len(stride_in)
            /\ stride_out.reordered[i * 4 + j + 1]
                   = stride_in[(i + j * StrideN) * 4 + j + 1]

\* C1 (amended): for every N >= 1 and every list of length 4N, reorder_stride
\* returns a list of length 4N with reordered[i*4 + j] = flattened[i + j*N]
\* for every i in [0,N) and j in [0,4).
C1_IndexLaw ==
    StrideReturnedPages =>
        /\ Len(stride_out.reordered) = 4 * StrideN
        /\ \A i \in 0..(StrideN - 1), j \in 0..3 :
               stride_out.reordered[i * 4 + j + 1] = stride_in[i + j * StrideN + 1]

C1_Witness ==
    /\ stride_out.kind = "returned"
    /\ stride_in = Numbered(8)
    /\ stride_out.reordered[2] = 2

\* C2: for N >= 1 and a list of 4N distinct sub-regions, reorder_stride
\* returns a permutation of it (length 4N, every input element exactly once)
\* together with the page count N.
C2_Permutation ==
    (stride_out.kind # "none" /\ Len(stride_in) >= 4
        /\ Len(stride_in) % 4 = 0 /\ IsDistinct(stride_in)) =>
        /\ stride_out.kind = "returned"
        /\ Len(stride_out.reordered) = Len(stride_in)
        /\ \A x \in 1..Len(stride_in) :
               Cardinality({y \in 1..Len(stride_out.reordered) :
                               stride_out.reordered[y] = stride_in[x]}) = 1
        /\ stride_out.num_pages = StrideN

C2_Witness ==
    /\ stride_out.kind = "returned"
    /\ stride_in = Descending(8)
    /\ stride_out.reordered # stride_in

\* C5: reorder_stride on a list whose length is not divisible by 4 raises
\* and returns nothing, in particular no truncated list.
C5_DivisibilityGuard ==
    (stride_out.kind # "none" /\ Len(stride_in) % 4 # 0) =>
        /\ stride_out.kind = "raised"
        /\ stride_out.msg = MsgNotDivisible
        /\ stride_out.reordered = <<>>

C5_Witness ==
    /\ stride_out.kind = "raised"
    /\ Len(stride_in) = 6

\* C8: a list of exactly 4 sub-regions (N = 1) is returned in unchanged
\* order, with page count 1.
C8_SinglePageIdentity ==
    (stride_out.kind # "none" /\ Len(stride_in) = 4) =>
        /\ stride_out.kind = "returned"
        /\ stride_out.reordered = stride_in
        /\ stride_out.num_pages = 1

C8_Witness ==
    /\ stride_out.kind = "returned"
    /\ stride_in = Numbered(4)
    /\ stride_out.num_pages = 1

\* ------------------------------------------- claims about the pipeline
Rebuilt == calls.rebuild >= 1
\* the number of a sub-region: its 0-based position in the flattened list
InvoiceNo(part) == CHOOSE x \in 0..(Len(parts) - 1) : parts[x + 1] = part

\* C3: after reorder_stride and rebuild_pages on 4N invoices numbered
\* 0..4N-1 in flattened order, slot j of output page i holds invoice i + j*N,
\* so pile j read through pages 0..N-1 is j*N, j*N+1, ..., j*N+N-1.
C3_PilesSequential ==
    Rebuilt =>
        /\ Len(writer.pages) = nPages
        /\ \A i \in 0..(nPages - 1), j \in 0..3 :
               InvoiceNo(writer.pages[i + 1][j + 1].part) = i + j * nPages

C3_Witness ==
    /\ Rebuilt
    /\ nPages = 3
    /\ InvoiceNo(writer.pages[2][3].part) = 7

\* the vertical range a placed sub-region occupies: its crop box translated
\* by the offset it was merged with
PlacedLow(pl) == pl.box.lly + pl.y
PlacedHigh(pl) == pl.box.ury + pl.y

\* C4: for H divisible by 4 every sub-region has a crop box of height H/4,
\* and on every output page the ranges of the four placed sub-regions are
\* pairwise non-overlapping and together cover [0,H].
C4_QuartersPartitionPage ==
    (Rebuilt /\ H0 % 4 = 0) =>
        /\ \A x \in 1..Len(parts) :
               BoxHeight(mediabox[parts[x].box]) = Quarter(H0)
        /\ \A pg \in 1..Len(writer.pages) :
               /\ \A a, b \in 1..4 :
                      a # b => \/ PlacedHigh(writer.pages[pg][a]) <= PlacedLow(writer.pages[pg][b])
                               \/ PlacedHigh(writer.pages[pg][b]) <= PlacedLow(writer.pages[pg][a])
               /\ \A a \in 1..4 :
                      /\ PlacedLow(writer.pages[pg][a]) >= 0
                      /\ PlacedHigh(writer.pages[pg][a]) <= H0
               /\ \A t \in 0..(H0 - 1) :
                      \E a \in 1..4 :
                          /\ PlacedLow(writer.pages[pg][a]) <= t
                          /\ t < PlacedHigh(writer.pages[pg][a])

\* C6: on a source document with 0 pages process_pdf raises the
\* empty-document error before any of slice_page_into_quarters,
\* reorder_stride, rebuild_pages is invoked and before the destination is
\* opened.
C6_EmptyRejectedFirst ==
    nPages = 0 =>
        /\ calls.slice = 0 /\ calls.reorder = 0
        /\ calls.rebuild = 0 /\ calls.open = 0
        /\ dstFile = dst0
        /\ pc \in {"run", "read", "check", "raised", "done"}
        /\ (pc \in {"raised", "done"} /\ exc # MsgReadError) => exc = MsgEmpty

C6_Witness ==
    /\ nPages = 0
    /\ pc = "done"
    /\ signals = <<Signal("progress", MsgProgress, -1), Signal("failed", MsgEmpty, -1)>>

\* C7: whenever a run of process_pdf ends in failure the destination file is
\* as it was before the run: absent if it was absent, unchanged if it existed.
C7_FailureLeavesDestination ==
    (pc = "raised" \/ (pc = "done" /\ exc # "")) => dstFile = dst0

\* C9: slice_page_into_quarters does not change its input page: once pages
\* have been sliced every source page still has the box (0,0,W,H), the
\* template dimensions rebuild_pages reads are (W,H), and sub-region i of a
\* page keeps the crop box [H - (H/4)*(i+1), H - (H/4)*i).
C9_SliceHasNoSideEffect ==
    /\ \A p \in 1..nPages :
           calls.slice >= p => mediabox[p] = Rect(0, 0, W0, H0)
    /\ Rebuilt => (writer.w = W0 /\ writer.h = H0)
    /\ \A x \in 1..Len(parts) :
           /\ mediabox[parts[x].box].lly = H0 - Quarter(H0) * (parts[x].quarter + 1)
           /\ mediabox[parts[x].box].ury = H0 - Quarter(H0) * parts[x].quarter
    /\ \A x, y \in 1..Len(parts) :
           (x # y /\ parts[x].page = parts[y].page) => parts[x].box # parts[y].box

Terminals == SelectSeq(signals, LAMBDA s : s.sig \in {"finished", "failed"})

RunOutcomeSafe ==
    /\ Len(Terminals) <= 1
    /\ signals # <<>> => signals[1] = Signal("progress", MsgProgress, -1)
    /\ Terminals # <<>> => (Len(signals) = 2 /\ signals[2] = Terminals[1])
    /\ pc = "done" => Len(Terminals) = 1
    /\ \A x \in 1..Len(signals) :
           /\ signals[x].sig = "finished" =>
                  (ret >= 0 /\ exc = "" /\ signals[x].pages = ret)
           /\ signals[x].sig = "failed" =>
                  (exc # "" /\ ret = -1 /\ signals[x].msg = exc)

\* C10: every run of PdfWorker.run ends, and reports exactly one terminal
\* outcome after the progress message: finished(page count) or
\* failed(message), never both, never neither; finished only if process_pdf
\* returned, failed only if an error was raised.
C10_OneTerminalOutcome == [](RunOutcomeSafe) /\ <>(pc = "done")

C10_Witness ==
    /\ pc = "done"
    /\ signals = <<Signal("progress", MsgProgress, -1), Signal("finished", "", 2)>>

====
